---- MODULE Spec2Model ----
(***************************************************************************)
(* A model of the goping repository.                                       *)
(*                                                                         *)
(*  - The request coordinator: goping.Start (src/goping.go), the select    *)
(*    loop over the channels in, pin, doneIn and done, the goroutines it    *)
(*    spawns, the sync.WaitGroup wg and the response channel out.           *)
(*  - The transport: coordinator (src/unnamed/part_001), the select loop    *)
(*    over the channels ping and pong, the sequence counter seq and the     *)
(*    map pingmap.                                                          *)
(*  - goping.NewRequest (src/goping.go) and its id generator.               *)
(*  - The round-trip time of a Ping, from the clock readings of             *)
(*    sendMessage and runListener (src/unnamed/part_001).                   *)
(*                                                                         *)
(* All channels of Start are unbuffered, so a send and its receive are one  *)
(* step.  A goroutine is a record of its position (pc) and its locals.      *)
(***************************************************************************)
EXTENDS Integers, Naturals, Sequences, FiniteSets, TLC

(***************************************************************************)
(* Bounds of the model.                                                    *)
(***************************************************************************)
\* number of Requests the caller sends on in
MaxReqs == 2
\* number of attempts that the Requests of the caller ask for, all together
MaxAttempts == 3
\* attempts of a Request with negative Count that the model follows
MaxUnbounded == 2
\* number of Pings the callers send on ping
MaxPings == 3
\* number of captures that wait on pong
MaxPong == 2
\* number of goroutines that call NewRequest
MaxCallers == 2
\* number of calls of NewRequest, all together
MaxIds == 4
\* latest time of a send and longest delay of a reply, in milliseconds
MaxTime == 5
MaxDelay == 5

Jobs == 1..MaxReqs
\* Config.Count: negative is unbounded, zero is no attempt
Counts == (-1)..MaxAttempts
\* the attempts the model follows for a Request with this Count
Cost(count) == IF count < 0 THEN MaxUnbounded ELSE count

NoErr == "nil"
ErrTimeout == "Timeout"
ErrSend == "SendFailure"
ErrUnreachable == "Destination Unreachable"

\* the ICMP message types a reply of the Pinger carries in this model
ReplyTypes == {"EchoReply", "DestinationUnreachable"}
\* the ICMP message types of the switch of Start, and two it does not name
ICMPTypes ==
  {"Echo", "EchoReply", "DestinationUnreachable", "TimeExceeded",
   "ParameterProblem", "Redirect", "TimestampReply", "RouterAdvertisement"}

VARIABLES
  \* ---- goping.Start ----
  inClosed,     \* the caller has closed the channel in
  inNil,        \* the loop has set in = nil (goping.go:107)
  accepted,     \* sequence of the Requests received from in, in order
  procs,        \* the goroutines of lines 119 and 133, one record each
  wg,           \* counter of the sync.WaitGroup
  doneInSender, \* the goroutine of line 108 is blocked on doneIn <-
  closer,       \* position of the goroutine of line 185
  outClosed,    \* close(out) has been executed
  closes,       \* number of close(out) executed
  returned,     \* the loop has returned (goping.go:192)
  panicked,     \* a runtime panic has happened, and which
  nPing,        \* history: calls of pinger.Ping per Request
  nResp,        \* history: Responses received from out per Request
  \* ---- coordinator (part_001) ----
  pid,          \* os.Getpid()
  seq,          \* the sequence number of the last Ping received from ping
  pingmap,      \* the sequence numbers that have a channel in pingmap
  pongchan,     \* per sequence number, the captures that are on its pongchan
  chanClosed,   \* the sequence numbers whose pongchan has been closed
  waiting,      \* the goroutines of line 115, blocked on their pongchan
  pong,         \* the captures sent on pong and not yet received by the loop
  echoed,       \* the Pings given back on their EchoChannel
  tstate,       \* the process: "starting", "running", "exited", "panicked"
  lpc,          \* the loop of coordinator: at its "select" or at line "109"
  issued,       \* history: the sequence numbers given to Pings, in order
  written,      \* history: the sequence numbers written to the socket
  delivered,    \* history: per sequence number, captures sent on its pongchan
  timedOut,     \* history: the Pings whose caller's timeout has expired
  \* ---- goping.NewRequest ----
  idGen,        \* g.idGen
  calls,        \* per caller, its call of NewRequest
  newReqs,      \* history: the Requests returned, in the order of the returns
  \* ---- the round-trip time of one Ping ----
  rpc,          \* "send", "flight", "read", "pong", "resp"
  clock,        \* time.Now(), in milliseconds
  delay,        \* time from the write of the request to the read of the reply
  piWhen,       \* pi.When (part_001:195)
  riWhen,       \* ri.when (part_001:51)
  pongRtt,      \* pi.Pong.Rtt (part_001:118)
  resp          \* the Response of Start for the reply (goping.go:134-152)

gvars == <<inClosed, inNil, accepted, procs, wg, doneInSender, closer,
           outClosed, closes, returned, panicked, nPing, nResp>>

tvars == <<pid, seq, pingmap, pongchan, chanClosed, waiting, pong, echoed,
           tstate, lpc, issued, written, delivered, timedOut>>

\* the variables that the steps of Start leave alone, and those that the
\* steps of the transport leave alone
nvars == <<idGen, calls, newReqs>>

rvars == <<rpc, clock, delay, piWhen, riWhen, pongRtt, resp>>

notG == <<tvars, nvars, rvars>>
notT == <<gvars, nvars, rvars>>
notN == <<gvars, tvars, rvars>>
notR == <<gvars, tvars, nvars>>

vars == <<gvars, tvars, nvars, rvars>>

RECURSIVE SumOver(_, _)
SumOver(f, S) ==
  IF S = {} THEN 0
  ELSE LET x == CHOOSE y \in S : TRUE IN f[x] + SumOver(f, S \ {x})

\* the attempts the Requests received so far ask for
Planned(reqs) == SumOver([j \in DOMAIN reqs |-> Cost(reqs[j])], DOMAIN reqs)

\* the Requests received from in
Accepted == 1..Len(accepted)
\* the Requests that ask for a number of attempts
Bounded == {j \in Accepted : accepted[j] >= 0}
AllBounded == Bounded = Accepted
\* the attempts of those Requests that have no Response yet
Remaining == SumOver([j \in Bounded |-> accepted[j] - nResp[j]], Bounded)

(***************************************************************************)
(* Pure parts of Start.                                                    *)
(***************************************************************************)
\* goping.go:113-116: wg.Add(1), and wg.Done() at once when Count is 0
AcceptWgMutant(count, w) == w + 1
AcceptWg(count, w) == IF count = 0 THEN (w + 1) - 1 ELSE w + 1

\* goping.go:114,117: a Request is sent to pin unless its Count is 0
GoesToPin(count) == count # 0

\* goping.go:127: recv.Sent++
IncSentMutant(sent) == sent + 2
IncSent(sent) == sent + 1

\* goping.go:146: the goroutine waits for the reply only when Ping gave no error
AwaitsReplyMutant(err) == TRUE
AwaitsReply(err) == err = NoErr

\* goping.go:153-167: the error of a Response from the type of the reply
ClassifyMutant(type) ==
  CASE type = "Echo" -> NoErr
    [] type = "EchoReply" -> NoErr
    [] type = "DestinationUnreachable" -> ErrUnreachable
    [] type = "TimeExceeded" -> "Time Exceeded"
    [] type = "ParameterProblem" -> "Parameter Problem"
    [] OTHER -> "uncategorized ICMP RAW Response Type"

Classify(type) ==
  CASE type = "Echo" -> NoErr
    [] type = "EchoReply" -> NoErr
    [] type = "DestinationUnreachable" -> ErrUnreachable
    [] type = "TimeExceeded" -> "Time Exceeded"
    [] type = "ParameterProblem" -> "Parameter Problem"
    [] type = "Redirect" -> "Redirect"
    [] OTHER -> "uncategorized ICMP RAW Response Type"

\* goping.go:174: this was the last attempt of the Request
LastAttemptMutant(count, sent) == sent >= count
LastAttemptOffByOne(count, sent) == count >= 0 /\ sent > count
LastAttempt(count, sent) == count >= 0 /\ sent >= count

\* goping.go:176: wg.Done()
DoneWgMutant(w) == w
DoneWg(w) == w - 1

\* goping.go:186: wg.Wait() returns when the counter is zero
WaitReturnsMutant(w) == TRUE
WaitReturns(w) == w = 0

(***************************************************************************)
(* Initial state: Start has made the channels and started the loop.        *)
(***************************************************************************)
GInit ==
  /\ inClosed = FALSE
  /\ inNil = FALSE
  /\ accepted = <<>>
  /\ procs = {}
  /\ wg = 0
  /\ doneInSender = FALSE
  /\ closer = "none"
  /\ outClosed = FALSE
  /\ closes = 0
  /\ returned = FALSE
  /\ panicked = "none"
  /\ nPing = [j \in Jobs |-> 0]
  /\ nResp = [j \in Jobs |-> 0]

\* the transport is not started
TIdle ==
  /\ pid = 0
  /\ seq = 0
  /\ pingmap = {}
  /\ pongchan = [s \in 1..MaxPings |-> <<>>]
  /\ chanClosed = {}
  /\ waiting = {}
  /\ pong = {}
  /\ echoed = {}
  /\ tstate = "starting"
  /\ lpc = "select"
  /\ issued = <<>>
  /\ written = {}
  /\ delivered = [s \in 1..MaxPings |-> 0]
  /\ timedOut = {}

Callers == 1..MaxCallers

\* goping.go:202-208: New, idGen is zero and no call of NewRequest is made.
\* A call is at "idle" (not made), "add" (at line 84) or "ret" (at line 85);
\* history fields: seen, idGen when the call began; floor, the largest id
\* returned when the call began.
NInit ==
  /\ idGen = 0
  /\ calls = [c \in Callers |-> [pc |-> "idle", id |-> 0, seen |-> 0,
                                  floor |-> 0]]
  /\ newReqs = <<>>

\* goping.go:134-142: the Response starts with RTT = NaN and no error
NaN == "NaN"

\* no Ping is sent
RIdle ==
  /\ rpc = "send"
  /\ clock = 0
  /\ delay = 0
  /\ piWhen = 0
  /\ riWhen = 0
  /\ pongRtt = 0
  /\ resp = [Err |-> NoErr, RTT |-> NaN]

Init == GInit /\ TIdle /\ NInit /\ RIdle

Alive == panicked = "none"
Looping == Alive /\ ~returned

\* a goroutine that holds the Request recv: the one of line 119, blocked on
\* pin <- recv, or the one of line 133 at its start.  err is the error of
\* Ping and then resp.Err.  History fields: replied, the reply was on future
\* before the timeout expired; waited, the goroutine has been at the select
\* of line 148; late, the Request has a negative Count and Ping was called
\* after in was closed.  raw is the ICMP type of resp.RawResponse, "none"
\* while the Response holds no reply.
Proc(j, count, sent, pc, err, late) ==
  [job |-> j, Count |-> count, Sent |-> sent, pc |-> pc, err |-> err,
   raw |-> "none", replied |-> FALSE, waited |-> FALSE, late |-> late]

(***************************************************************************)
(* The caller.                                                             *)
(***************************************************************************)
\* goping.go:104,112-122: the caller sends a Request on in and the loop
\* receives it
RecvIn(count) ==
  /\ Looping /\ ~inClosed /\ ~inNil
  /\ Len(accepted) < MaxReqs
  /\ Planned(accepted) + Cost(count) <= MaxAttempts
  /\ LET j == Len(accepted) + 1 IN
       /\ accepted' = Append(accepted, count)
       /\ wg' = AcceptWg(count, wg)
       /\ procs' = IF GoesToPin(count)
                   THEN procs \cup {Proc(j, count, 0, "pin", NoErr, FALSE)}
                   ELSE procs
  /\ UNCHANGED <<inClosed, inNil, doneInSender, closer, outClosed, closes,
                 returned, panicked, nPing, nResp>>
  /\ UNCHANGED notG

\* the caller closes in
CloseIn ==
  /\ Alive /\ ~inClosed
  /\ inClosed' = TRUE
  /\ UNCHANGED <<inNil, accepted, procs, wg, doneInSender, closer, outClosed,
                 closes, returned, panicked, nPing, nResp>>
  /\ UNCHANGED notG

(***************************************************************************)
(* The loop of Start.                                                      *)
(***************************************************************************)
\* goping.go:104-111: the receive from the closed in
RecvInClosed ==
  /\ Looping /\ inClosed /\ ~inNil
  /\ inNil' = TRUE
  /\ doneInSender' = TRUE
  /\ UNCHANGED <<inClosed, accepted, procs, wg, closer, outClosed, closes,
                 returned, panicked, nPing, nResp>>
  /\ UNCHANGED notG

\* goping.go:125-147: the receive from pin, Sent++, Ping and the go statement;
\* the new goroutine builds the Response and starts its timers, which touches
\* nothing shared, and is then at the select of line 148 or, when Ping gave an
\* error, at the send of line 172
RecvPin(p, err) ==
  /\ Looping
  /\ p \in procs /\ p.pc = "pin"
  /\ p.Count < 0 => p.Sent < MaxUnbounded
  /\ LET sent == IncSent(p.Sent)
         late == inClosed /\ p.Count < 0
         q == Proc(p.job, p.Count, sent, "out", err, late)
     IN
       /\ procs' = (procs \ {p}) \cup
            {IF AwaitsReply(err)
             THEN [q EXCEPT !.pc = "select", !.waited = TRUE]
             ELSE q}
       /\ nPing' = [nPing EXCEPT ![p.job] = @ + 1]
  /\ UNCHANGED <<inClosed, inNil, accepted, wg, doneInSender, closer,
                 outClosed, closes, returned, panicked, nResp>>
  /\ UNCHANGED notG

\* goping.go:184-189: the receive from doneIn and the go statement
RecvDoneIn ==
  /\ Looping /\ doneInSender
  /\ doneInSender' = FALSE
  /\ closer' = "wait"
  /\ UNCHANGED <<inClosed, inNil, accepted, procs, wg, outClosed, closes,
                 returned, panicked, nPing, nResp>>
  /\ UNCHANGED notG

\* goping.go:191-192: the receive from done, and the return
RecvDone ==
  /\ Looping /\ closer = "done"
  /\ closer' = "exit"
  /\ returned' = TRUE
  /\ UNCHANGED <<inClosed, inNil, accepted, procs, wg, doneInSender,
                 outClosed, closes, panicked, nPing, nResp>>
  /\ UNCHANGED notG

(***************************************************************************)
(* The goroutine of line 185.                                              *)
(***************************************************************************)
\* goping.go:186: wg.Wait() returns
CloserWait ==
  /\ Alive /\ closer = "wait"
  /\ WaitReturns(wg)
  /\ closer' = "close"
  /\ UNCHANGED <<inClosed, inNil, accepted, procs, wg, doneInSender,
                 outClosed, closes, returned, panicked, nPing, nResp>>
  /\ UNCHANGED notG

\* goping.go:187: close(out); closing a closed channel panics
CloserClose ==
  /\ Alive /\ closer = "close"
  /\ closer' = "done"
  /\ outClosed' = TRUE
  /\ closes' = closes + 1
  /\ panicked' = IF outClosed THEN "close of closed channel" ELSE panicked
  /\ UNCHANGED <<inClosed, inNil, accepted, procs, wg, doneInSender,
                 returned, nPing, nResp>>
  /\ UNCHANGED notG


(***************************************************************************)
(* The goroutine of line 133, one per attempt.                             *)
(***************************************************************************)
\* The select of line 148.  order is the order in which the reply of the
\* Pinger on future and the expiry of the timer of line 147 have happened when
\* the select is evaluated: one of them alone, or both.  The reply may be on
\* future before the timer is started.
Orders == {"reply", "timer", "replyTimer", "timerReply"}
TimeoutReady(order) == order \in {"timer", "replyTimer", "timerReply"}
FutureReady(order) == order \in {"reply", "replyTimer", "timerReply"}
\* the reply was on future before the timeout expired
RepliedInTime(order) == order \in {"reply", "replyTimer"}

\* goping.go:149-150: the select takes the timeout
SelectTimeout(p, order) ==
  /\ Alive
  /\ p \in procs /\ p.pc = "select"
  /\ TimeoutReady(order)
  /\ procs' = (procs \ {p}) \cup
       {[p EXCEPT !.pc = "out", !.err = ErrTimeout,
                  !.replied = RepliedInTime(order)]}
  /\ UNCHANGED <<inClosed, inNil, accepted, wg, doneInSender, closer,
                 outClosed, closes, returned, panicked, nPing, nResp>>
  /\ UNCHANGED notG

\* goping.go:151-167: the select takes the reply
SelectFuture(p, order, type) ==
  /\ Alive
  /\ p \in procs /\ p.pc = "select"
  /\ FutureReady(order)
  /\ procs' = (procs \ {p}) \cup
       {[p EXCEPT !.pc = "out", !.raw = type, !.err = Classify(type),
                  !.replied = RepliedInTime(order)]}
  /\ UNCHANGED <<inClosed, inNil, accepted, wg, doneInSender, closer,
                 outClosed, closes, returned, panicked, nPing, nResp>>
  /\ UNCHANGED notG

\* goping.go:172: out <- resp, received by the consumer; a send on the closed
\* out panics.  At "sent" the record still holds the Err of the Response that
\* was sent.
Emit(p) ==
  /\ Alive
  /\ p \in procs /\ p.pc = "out"
  /\ IF outClosed
     THEN /\ panicked' = "send on closed channel"
          /\ UNCHANGED <<procs, nResp>>
     ELSE /\ procs' = (procs \ {p}) \cup
               {[p EXCEPT !.pc = "sent", !.replied = FALSE]}
          /\ nResp' = [nResp EXCEPT ![p.job] = @ + 1]
          /\ UNCHANGED panicked
  /\ UNCHANGED <<inClosed, inNil, accepted, wg, doneInSender, closer,
                 outClosed, closes, returned, nPing>>
  /\ UNCHANGED notG

\* goping.go:174-176: the last attempt, wg.Done(); a negative counter panics
Retire(p) ==
  /\ Alive
  /\ p \in procs /\ p.pc = "sent"
  /\ LastAttempt(p.Count, p.Sent)
  /\ procs' = procs \ {p}
  /\ wg' = DoneWg(wg)
  /\ panicked' = IF wg = 0 THEN "negative WaitGroup counter" ELSE panicked
  /\ UNCHANGED <<inClosed, inNil, accepted, doneInSender, closer, outClosed,
                 closes, returned, nPing, nResp>>
  /\ UNCHANGED notG

\* goping.go:177-180: more attempts to do, <-waitInterval and then the
\* goroutine blocks on pin <- recv
WaitInterval(p) ==
  /\ Alive
  /\ p \in procs /\ p.pc = "sent"
  /\ ~LastAttempt(p.Count, p.Sent)
  /\ procs' = (procs \ {p}) \cup
       {Proc(p.job, p.Count, p.Sent, "pin", NoErr, FALSE)}
  /\ UNCHANGED <<inClosed, inNil, accepted, wg, doneInSender, closer,
                 outClosed, closes, returned, panicked, nPing, nResp>>
  /\ UNCHANGED notG

\* the errors Ping returns
PingErrs == {NoErr, ErrSend}

GNext ==
  \/ \E count \in Counts : RecvIn(count)
  \/ CloseIn
  \/ RecvInClosed
  \/ \E p \in procs : \E err \in PingErrs : RecvPin(p, err)
  \/ RecvDoneIn
  \/ RecvDone
  \/ CloserWait
  \/ CloserClose
  \/ \E p \in procs : \E order \in Orders : SelectTimeout(p, order)
  \/ \E p \in procs : \E order \in Orders : \E type \in ReplyTypes :
       SelectFuture(p, order, type)
  \/ \E p \in procs : Emit(p)
  \/ \E p \in procs : Retire(p)
  \/ \E p \in procs : WaitInterval(p)

Next == GNext

Spec == Init /\ [][Next]_vars

\* The steps of the goroutines of Start, the caller's steps left out.
Progress ==
  \/ RecvInClosed
  \/ \E p \in procs : \E err \in PingErrs : RecvPin(p, err)
  \/ RecvDoneIn
  \/ RecvDone
  \/ CloserWait
  \/ CloserClose
  \/ \E p \in procs : \E order \in Orders : SelectTimeout(p, order)
  \/ \E p \in procs : \E order \in Orders : \E type \in ReplyTypes :
       SelectFuture(p, order, type)
  \/ \E p \in procs : Emit(p)
  \/ \E p \in procs : Retire(p)
  \/ \E p \in procs : WaitInterval(p)

\* While a goroutine can take a step, some goroutine takes one: the scheduler
\* runs the goroutines that can run, Ping returns, the timers expire and the
\* consumer keeps receiving from out.
Fairness == WF_vars(Progress)

FairSpec == Init /\ [][Next]_vars /\ Fairness

\* Start after the caller has sent one Request with some Count other than 0
\* and closed in: the state after RecvIn and CloseIn
CInit ==
  /\ inClosed = TRUE
  /\ inNil = FALSE
  /\ accepted \in {<<count>> : count \in Counts \ {0}}
  /\ procs = {Proc(1, accepted[1], 0, "pin", NoErr, FALSE)}
  /\ wg = AcceptWg(accepted[1], 0)
  /\ doneInSender = FALSE
  /\ closer = "none"
  /\ outClosed = FALSE
  /\ closes = 0
  /\ returned = FALSE
  /\ panicked = "none"
  /\ nPing = [j \in Jobs |-> 0]
  /\ nResp = [j \in Jobs |-> 0]

CStart == CInit /\ TIdle /\ NInit /\ RIdle

\* the steps of Start for that Request, with a Pinger whose replies are of
\* every ICMP type
CNext ==
  \/ RecvInClosed
  \/ \E p \in procs : \E err \in PingErrs : RecvPin(p, err)
  \/ RecvDoneIn
  \/ RecvDone
  \/ CloserWait
  \/ CloserClose
  \/ \E p \in procs : \E order \in Orders : SelectTimeout(p, order)
  \/ \E p \in procs : \E order \in Orders : \E type \in ICMPTypes :
       SelectFuture(p, order, type)
  \/ \E p \in procs : Emit(p)
  \/ \E p \in procs : Retire(p)
  \/ \E p \in procs : WaitInterval(p)

CSpec == CStart /\ [][CNext]_vars


(***************************************************************************)
(* The claims about the request coordinator.                               *)
(***************************************************************************)
\* the goroutines that hold Request j
ProcsOf(j) == {p \in procs : p.job = j}

\* C1: a Request with Count = N >= 1 gets N calls of Ping and N Responses, one
\* per attempt whatever its outcome: never more than N calls of Ping, a
\* Response only for a call made, and N Responses when its goroutine has ended
C1_ExactlyN ==
  \A j \in Accepted :
    accepted[j] >= 1 =>
      /\ nPing[j] <= accepted[j]
      /\ nResp[j] <= nPing[j]
      /\ ProcsOf(j) = {} => nResp[j] = accepted[j]
      /\ nResp[j] = accepted[j] => \A p \in ProcsOf(j) : p.pc = "sent"

C1_Witness ==
  \E j \in Accepted :
    accepted[j] >= 2 /\ ProcsOf(j) = {} /\ nResp[j] = accepted[j]

\* C2: out is closed once, only after in was closed and every Request received
\* has had the Response of its last attempt sent and has been retired, and no
\* goroutine sends on the closed out (nothing panics)
C2_CloseOnce ==
  /\ closes <= 1
  /\ outClosed <=> closes = 1
  /\ panicked = "none"
  /\ outClosed =>
       /\ inClosed
       /\ procs = {}
       /\ wg = 0
       /\ \A j \in Accepted : accepted[j] >= 0 /\ nResp[j] = accepted[j]

C2_Witness ==
  /\ outClosed
  /\ Len(accepted) = 2
  /\ \A j \in Accepted : accepted[j] >= 1

\* C3: once in is closed and every Request received asks for a number of
\* attempts, out is closed in the end; it is closed only when no attempt is
\* left without its Response, and when in is closed with none left no further
\* Response is sent
C3_ClosesAfterK ==
  /\ []((inClosed /\ AllBounded) => <>outClosed)
  /\ [](outClosed => Remaining = 0)
  /\ [][(inClosed /\ AllBounded /\ Remaining = 0) => nResp' = nResp]_vars

\* in is closed and seen closed while two Requests still have attempts to do
C3_Witness ==
  /\ closer = "wait"
  /\ AllBounded
  /\ Cardinality({j \in Accepted : nResp[j] < accepted[j]}) = 2
  /\ Remaining >= 2

\* C4, as claimed: after in is closed no further attempt of a Request with
\* negative Count is dispatched
C4_NoDispatchAfterClose ==
  [][inClosed =>
       \A j \in Accepted : accepted[j] < 0 => nPing'[j] = nPing[j]]_vars

\* C4, amended: a Request with negative Count is never retired, in or after
\* the closing of in: its attempts go on one at a time, each with its
\* Response, the counter of wg stays positive and out is not closed
C4_UnboundedNeverEnds ==
  \A j \in Accepted :
    accepted[j] < 0 =>
      /\ ~outClosed
      /\ closer \in {"none", "wait"}
      /\ wg >= 1
      /\ Cardinality(ProcsOf(j)) = 1
      /\ nResp[j] <= nPing[j] /\ nPing[j] <= nResp[j] + 1

\* the Response of an attempt dispatched after in was closed has been sent,
\* while the goroutine of line 185 waits
C4_Witness ==
  \E p \in procs :
    p.Count < 0 /\ p.late /\ p.pc = "sent" /\ closer = "wait"

\* C5: a Request with Count = 0 gets no call of Ping, no Response and no
\* goroutine, and the counter of wg counts only the Requests that have a
\* goroutine, so such a Request never keeps wg.Wait() from returning
C5_ZeroCount ==
  /\ \A j \in Accepted :
       accepted[j] = 0 => nPing[j] = 0 /\ nResp[j] = 0 /\ ProcsOf(j) = {}
  /\ wg = Cardinality({p.job : p \in procs})

C5_Witness ==
  /\ outClosed
  /\ \E j \in Accepted : accepted[j] = 0
  /\ \E j \in Accepted : accepted[j] >= 1

\* C6: a Request has at most one goroutine, so at most one attempt in flight;
\* Ping is called for attempt k+1 only after the Response of attempt k was
\* sent, and the k-th Response carries Sent = k
C6_Sequential ==
  \A j \in Jobs :
    /\ Cardinality(ProcsOf(j)) <= 1
    /\ ProcsOf(j) = {} => nPing[j] = nResp[j]
    /\ \A p \in ProcsOf(j) :
         /\ nPing[j] = p.Sent
         /\ nResp[j] = IF p.pc \in {"sent", "pin"} THEN p.Sent ELSE p.Sent - 1

C6_Witness ==
  \E p \in procs : p.pc = "sent" /\ p.Sent >= 2

\* C7, as claimed: the Response of an attempt whose send succeeded has
\* Err = Timeout exactly when no reply was on future before the timeout expired
C7_TimeoutIff ==
  \A p \in procs :
    (p.pc = "out" /\ p.waited) => (p.err = ErrTimeout <=> ~p.replied)

\* C8: an attempt whose Ping returned an error has incremented Sent and counts
\* toward Count, has not been at the select of line 148 (it waits neither for
\* future nor for the timeout), and its one Response carries that error
C8_SendFailure ==
  \A p \in procs :
    /\ p.pc = "select" => p.err = NoErr
    /\ p.err = ErrSend =>
         /\ p.pc \in {"out", "sent"}
         /\ ~p.waited
         /\ p.Sent >= 1 /\ p.Sent = nPing[p.job]
         /\ p.Count >= 0 => p.Sent <= p.Count
         /\ nResp[p.job] = IF p.pc = "sent" THEN p.Sent ELSE p.Sent - 1

C8_Witness ==
  \E p \in procs :
    p.pc = "sent" /\ p.err = ErrSend /\ p.Count >= 2 /\ p.Sent = p.Count


\* C16: when the select of an attempt takes a reply, the Response gets that
\* reply as its RawResponse and its Err by the type of the reply: nil for Echo
\* and EchoReply, the error named after the type for DestinationUnreachable,
\* TimeExceeded, ParameterProblem and Redirect, the uncategorized-type error
\* for every other type; and a Response that holds a reply is sent with them.
C16_Expected(type) ==
  IF type \in {"Echo", "EchoReply"} THEN "nil"
  ELSE IF type = "DestinationUnreachable" THEN "Destination Unreachable"
  ELSE IF type = "TimeExceeded" THEN "Time Exceeded"
  ELSE IF type = "ParameterProblem" THEN "Parameter Problem"
  ELSE IF type = "Redirect" THEN "Redirect"
  ELSE "uncategorized ICMP RAW Response Type"

C16_ClassifiedByKind ==
  /\ [](\A p \in procs : p.raw # "none" =>
          p.pc \in {"out", "sent"} /\ p.err = C16_Expected(p.raw))
  /\ [][\A p \in procs : \A order \in Orders : \A type \in ICMPTypes :
          SelectFuture(p, order, type) =>
            \E q \in procs' :
              /\ q.job = p.job /\ q.Sent = p.Sent /\ q.pc = "out"
              /\ q.raw = type /\ q.err = C16_Expected(type)]_vars

\* the Response of the second attempt of a Request has been sent with a reply
\* of a type that the switch does not name
C16_Witness ==
  \E p \in procs :
    /\ p.pc = "sent" /\ p.Sent = 2
    /\ p.raw = "TimestampReply"
    /\ p.err = "uncategorized ICMP RAW Response Type"

\* no goroutine of Start is left: the loop has returned, out is closed, and
\* no goroutine is blocked on pin, out, doneIn or done
Finished ==
  /\ returned /\ outClosed /\ Alive
  /\ procs = {}
  /\ ~doneInSender
  /\ closer = "exit"

\* C19: once in is closed with only Requests of Count >= 0 received, Start
\* ends in the end with no goroutine left, and whenever its loop has returned
\* out is closed and no goroutine is left.
C19_Terminates ==
  /\ (inClosed /\ AllBounded) ~> Finished
  /\ [](returned => Finished)

\* Start has ended after two Requests with all their attempts answered
C19_Witness ==
  /\ Finished
  /\ Len(accepted) = 2
  /\ \A j \in Accepted : accepted[j] >= 1 /\ nResp[j] = accepted[j]

(***************************************************************************)
(* The transport: coordinator of part_001, its select loop over ping and    *)
(* pong, the listener that feeds pong, and the goroutines that wait for a   *)
(* capture.  A case of the select runs to its end before the next receive,  *)
(* so it is one step.                                                       *)
(***************************************************************************)
\* part_001:181: the identifier of an echo request is os.Getpid() & 0xffff
IDMask == 65535
EchoID(p) == p % (IDMask + 1)

\* the process ids of the model: one that fits 16 bits and one that does not
Pids == {1234, IDMask + 1 + 1234}

\* a capture read from the socket; ok: icmp.ParseMessage gives no error
Capture(ok, type, id, s) == [ok |-> ok, Type |-> type, ID |-> id, Seq |-> s]

\* the captures the listener reads: the echo replies to the identifier of this
\* process, with any sequence number, and one capture of each kind that the
\* loop drops
Captures(p) ==
  {Capture(TRUE, "EchoReply", EchoID(p), s) : s \in 1..MaxPings}
    \cup {Capture(FALSE, "EchoReply", EchoID(p), 1),
          Capture(TRUE, "DestinationUnreachable", EchoID(p), 1),
          Capture(TRUE, "EchoReply", EchoID(p + 1), 1)}

\* part_001:130-146: the capture passes the parse, the type test and the test
\* of the identifier against os.Getpid()
Passes(c, p) == c.ok /\ c.Type = "EchoReply" /\ c.ID = p

\* part_001:149-152: the key looked up in pingmap is seq, the counter of the
\* loop, whatever the sequence number of the capture
LookupKey(counter, c) == counter

\* part_001:91: seq++
NextSeqMutant(s) == (s % 2) + 1
NextSeq(s) == s + 1

\* part_001:152: delete(pingmap, seq)
DeletedMutant(map, key) == map
Deleted(map, key) == map \ {key}

\* part_001:87-89,127: the loop receives from ping and pong only at its
\* select, not while it runs a case
AtSelectMutant(pc) == TRUE
AtSelect(pc) == pc = "select"

\* the sequence numbers that have had a channel in pingmap: an entry leaves
\* pingmap only at line 152, after the close of its channel
Registered == pingmap \cup chanClosed

\* coordinator is called: the process runs and no socket is open yet
TInit ==
  /\ pid \in Pids
  /\ seq = 0
  /\ pingmap = {}
  /\ pongchan = [s \in 1..MaxPings |-> <<>>]
  /\ chanClosed = {}
  /\ waiting = {}
  /\ pong = {}
  /\ echoed = {}
  /\ tstate = "starting"
  /\ lpc = "select"
  /\ issued = <<>>
  /\ written = {}
  /\ delivered = [s \in 1..MaxPings |-> 0]
  /\ timedOut = {}

Running == tstate = "running"

\* log.Fatal ends the process with os.Exit(1): its goroutines, channels and
\* maps are gone, and nothing is reported to a caller
Exited ==
  /\ tstate' = "exited"
  /\ seq' = 0
  /\ pingmap' = {}
  /\ pongchan' = [s \in 1..MaxPings |-> <<>>]
  /\ chanClosed' = {}
  /\ waiting' = {}
  /\ pong' = {}
  /\ echoed' = {}
  /\ lpc' = "select"
  /\ issued' = <<>>
  /\ written' = {}
  /\ delivered' = [s \in 1..MaxPings |-> 0]
  /\ timedOut' = {}
  /\ UNCHANGED pid

\* part_001:33-41,65-73: the raw sockets of the listener and of coordinator
\* are opened and configured; on an error, log.Fatal
OpenSockets(ok) ==
  /\ tstate = "starting"
  /\ IF ok
     THEN /\ tstate' = "running"
          /\ UNCHANGED <<pid, seq, pingmap, pongchan, chanClosed, waiting,
                         pong, echoed, lpc, issued, written, delivered,
                         timedOut>>
     ELSE Exited
  /\ UNCHANGED notT

\* part_001:46-48: ReadFrom gives an error in the listener, log.Fatal
ReadFails ==
  /\ Running
  /\ Exited
  /\ UNCHANGED notT

\* part_001:89-107: a Ping is received from ping, it gets the next sequence
\* number and sendMessage writes it to the socket; sent: sendMessage gives no
\* error.  The Pings of the model have an EchoChannel: without one the Ping is
\* not given back (lines 97, 122).
RecvPing(sent) ==
  /\ Running /\ AtSelect(lpc)
  /\ Len(issued) < MaxPings
  /\ seq' = NextSeq(seq)
  /\ issued' = Append(issued, seq')
  /\ IF sent
     THEN /\ written' = written \cup {seq'}
          /\ lpc' = "109"
          /\ UNCHANGED echoed
     ELSE /\ echoed' = echoed \cup {[Seq |-> seq', Err |-> ErrSend]}
          /\ UNCHANGED <<written, lpc>>
  /\ UNCHANGED <<pid, pingmap, pongchan, chanClosed, waiting, pong, tstate,
                 delivered, timedOut>>
  /\ UNCHANGED notT

\* part_001:109-125: the same case goes on: the channel of the Ping is made
\* and put in pingmap, and the goroutine that waits on it is started
Register ==
  /\ Running /\ lpc = "109"
  /\ lpc' = "select"
  /\ pingmap' = pingmap \cup {seq}
  /\ waiting' = waiting \cup {seq}
  /\ UNCHANGED <<pid, seq, pongchan, chanClosed, pong, echoed, tstate, issued,
                 written, delivered, timedOut>>
  /\ UNCHANGED notT

\* part_001:43-57,77-79: the listener reads a capture and a goroutine sends
\* it on pong
Listen(c) ==
  /\ Running
  /\ c \in Captures(pid)
  /\ c \notin pong
  /\ Cardinality(pong) < MaxPong
  /\ pong' = pong \cup {c}
  /\ UNCHANGED <<pid, seq, pingmap, pongchan, chanClosed, waiting, echoed,
                 tstate, lpc, issued, written, delivered, timedOut>>
  /\ UNCHANGED notT

\* part_001:127-154: a capture is received from pong; a send on a closed
\* channel panics
RecvPong(c) ==
  /\ Running /\ AtSelect(lpc)
  /\ c \in pong
  /\ pong' = pong \ {c}
  /\ LET key == LookupKey(seq, c) IN
       IF Passes(c, pid) /\ key \in pingmap
       THEN /\ pongchan' = [pongchan EXCEPT ![key] = Append(@, c)]
            /\ delivered' = [delivered EXCEPT ![key] = @ + 1]
            /\ chanClosed' = chanClosed \cup {key}
            /\ pingmap' = Deleted(pingmap, key)
            /\ tstate' = IF key \in chanClosed THEN "panicked" ELSE tstate
       ELSE UNCHANGED <<pongchan, delivered, chanClosed, pingmap, tstate>>
  /\ UNCHANGED <<pid, seq, waiting, echoed, lpc, issued, written, timedOut>>
  /\ UNCHANGED notT

\* part_001:115-125: the goroutine of the Ping with sequence number w receives
\* the capture from its pongchan and gives the Ping back on its EchoChannel
Waiter(w) ==
  /\ Running
  /\ w \in waiting
  /\ pongchan[w] # <<>>
  /\ pongchan' = [pongchan EXCEPT ![w] = Tail(@)]
  /\ waiting' = waiting \ {w}
  /\ echoed' = echoed \cup {[Seq |-> w, Err |-> NoErr]}
  /\ UNCHANGED <<pid, seq, pingmap, chanClosed, pong, tstate, lpc, issued,
                 written, delivered, timedOut>>
  /\ UNCHANGED notT

\* part_001:116-121, goping.go:147-150: the Timeout of the Ping with sequence
\* number s expires at its caller before any capture was sent on its channel.
\* The timeout case of the goroutine is commented out (lines 119-120) and no
\* other code takes the entry out of pingmap: nothing of the transport changes.
TimeoutExpires(s) ==
  /\ Running
  /\ s \in pingmap /\ s \notin timedOut
  /\ timedOut' = timedOut \cup {s}
  /\ UNCHANGED <<pid, seq, pingmap, pongchan, chanClosed, waiting, pong,
                 echoed, tstate, lpc, issued, written, delivered>>
  /\ UNCHANGED notT

TNext ==
  \/ \E ok \in BOOLEAN : OpenSockets(ok)
  \/ ReadFails
  \/ \E sent \in BOOLEAN : RecvPing(sent)
  \/ Register
  \/ \E c \in Captures(pid) : Listen(c)
  \/ \E c \in pong : RecvPong(c)
  \/ \E w \in waiting : Waiter(w)

\* the transport runs and Start is not called
TStart == GInit /\ TInit /\ NInit /\ RIdle

TSpec == TStart /\ [][TNext]_vars

\* the transport with callers that give up a Ping after its Timeout
TONext ==
  \/ TNext
  \/ \E s \in pingmap : TimeoutExpires(s)

TOSpec == TStart /\ [][TONext]_vars

(***************************************************************************)
(* The claims about the transport.                                         *)
(***************************************************************************)
\* C9, as claimed: a capture sent on the pongchan of a Ping carries the
\* sequence number of that Ping
C9_DeliveredToOwnSeq ==
  \A s \in 1..MaxPings :
    \A i \in 1..Len(pongchan[s]) : pongchan[s][i].Seq = s

\* C10, as claimed: an echo reply whose sequence number has no channel in
\* pingmap is dropped: no pongchan gets it, none is closed and pingmap stays
\* as it is
C10_UnknownSeqDropped ==
  [][\A c \in pong :
       (RecvPong(c) /\ Passes(c, pid) /\ c.Seq \notin pingmap) =>
         (pongchan' = pongchan /\ chanClosed' = chanClosed
            /\ pingmap' = pingmap)]_vars

\* C11: a Ping whose Timeout has expired has no entry in pingmap any more, and
\* no capture is ever sent on the channel of a Ping that has timed out.
C11_RemovedOnTimeout ==
  /\ timedOut \cap pingmap = {}
  /\ \A s \in timedOut : delivered[s] = 0

\* C12: the sequence numbers given to the Pings are strictly increasing in the
\* order of the sends, and no two Pings that have an entry in pingmap at the
\* same time have the same sequence number.
C12_SeqIncreasing ==
  /\ \A i, j \in 1..Len(issued) : i < j => issued[i] < issued[j]
  /\ \A i, j \in 1..Len(issued) :
       (i # j /\ issued[i] \in pingmap /\ issued[j] \in pingmap)
         => issued[i] # issued[j]
  /\ \A s \in pingmap : \E i \in 1..Len(issued) : issued[i] = s

\* three Pings were sent and two of them are in pingmap together
C12_Witness == Len(issued) >= 3 /\ Cardinality(pingmap) >= 2

\* C13: no failure of a socket, at the start or at a read, ends the process.
C13_NeverExits == tstate # "exited"

\* C17: over its life the channel of an entry of pingmap gets at most one
\* capture: an entry that is in pingmap has got none, no channel holds or has
\* got two, and no send or close on a closed channel (a panic) happens.
C17_OneShot ==
  /\ tstate # "panicked"
  /\ \A s \in 1..MaxPings :
       /\ delivered[s] <= 1
       /\ Len(pongchan[s]) <= 1
       /\ s \in pingmap => delivered[s] = 0
       /\ s \in chanClosed <=> delivered[s] = 1

\* the newest Ping has got its capture and a second reply that passes the
\* filters is in pong
C17_Witness ==
  /\ seq >= 1 /\ delivered[seq] = 1
  /\ \E c \in pong : Passes(c, pid) /\ c.Seq = seq

\* C18: whenever the loop looks up a capture that carries the sequence number
\* of a written echo request, the channel of that request has been put in
\* pingmap before.
C18_RegisteredBeforeLookup ==
  [][\A c \in pong :
       (RecvPong(c) /\ c.Seq \in written) => c.Seq \in Registered]_vars

\* the reply to the request just written is in pong and its channel is not in
\* pingmap yet
C18_Witness ==
  /\ lpc = "109" /\ seq \in written /\ seq \notin Registered
  /\ \E c \in pong : c.ok /\ c.Type = "EchoReply" /\ c.Seq = seq

\* C20: a well-formed echo reply that carries the ID that sendMessage wrote
\* passes the ID filter of the loop.
C20_OwnReplyPasses ==
  \A c \in pong :
    (c.ok /\ c.Type = "EchoReply" /\ c.ID = EchoID(pid)) => Passes(c, pid)

(***************************************************************************)
(* goping.NewRequest, called from several goroutines.                      *)
(***************************************************************************)
\* goping.go:84: atomic.AddUint64(&g.idGen, 1), the new value of idGen: one
\* more than its value at this step, whatever it was when the call began.
\* idGen is a uint64 and wraps after 2^64 calls, far from the calls followed
\* here.
AddUint64Mutant(gen, seen) == seen + 1
AddUint64(gen, seen) == gen + 1

RECURSIVE MaxId(_)
MaxId(rs) ==
  IF rs = <<>> THEN 0
  ELSE LET m == MaxId(Tail(rs)) IN IF Head(rs).Id > m THEN Head(rs).Id ELSE m

\* goping.go:83: a goroutine calls NewRequest
CallNewRequest(c) ==
  /\ calls[c].pc = "idle"
  /\ Len(newReqs) + Cardinality({d \in Callers : calls[d].pc # "idle"}) < MaxIds
  /\ calls' = [calls EXCEPT ![c] = [pc |-> "add", id |-> 0, seen |-> idGen,
                                    floor |-> MaxId(newReqs)]]
  /\ UNCHANGED <<idGen, newReqs>>
  /\ UNCHANGED notN

\* goping.go:84: id := atomic.AddUint64(&(g.idGen), 1)
Add(c) ==
  /\ calls[c].pc = "add"
  /\ idGen' = AddUint64(idGen, calls[c].seen)
  /\ calls' = [calls EXCEPT ![c].pc = "ret", ![c].id = idGen']
  /\ UNCHANGED newReqs
  /\ UNCHANGED notN

\* goping.go:85-90: the Request is returned with this id
Return(c) ==
  /\ calls[c].pc = "ret"
  /\ newReqs' = Append(newReqs, [Id |-> calls[c].id, floor |-> calls[c].floor])
  /\ calls' = [calls EXCEPT ![c] = [pc |-> "idle", id |-> 0, seen |-> 0,
                                    floor |-> 0]]
  /\ UNCHANGED idGen
  /\ UNCHANGED notN

NNext ==
  \/ \E c \in Callers : CallNewRequest(c)
  \/ \E c \in Callers : Add(c)
  \/ \E c \in Callers : Return(c)

NSpec == Init /\ [][NNext]_vars

\* C14: the Requests returned by NewRequest all have different ids, the id
\* of a Request is larger than every id that had been returned when its call
\* began, and a step of NewRequest changes nothing of Start.
C14_UniqueIds ==
  /\ [](\A i, j \in 1..Len(newReqs) : i # j => newReqs[i].Id # newReqs[j].Id)
  /\ [](\A i \in 1..Len(newReqs) : newReqs[i].Id > newReqs[i].floor)
  /\ [][UNCHANGED <<gvars, tvars>>]_vars

\* two calls ran at the same time: a Request was returned whose id is more
\* than one above the ids returned when its call began
C14_Witness ==
  /\ Len(newReqs) >= 2
  /\ \E i \in 1..Len(newReqs) : newReqs[i].Id > newReqs[i].floor + 1

(***************************************************************************)
(* The round-trip time of one Ping whose reply comes after delay.          *)
(***************************************************************************)
\* part_001:118: float64(pi.When.Sub(ri.when)) / float64(time.Millisecond)
Rtt(When, when) == When - when

\* a Ping is about to be sent at some time, its reply will take some delay
RInit ==
  /\ rpc = "send"
  /\ clock \in 0..MaxTime
  /\ delay \in 0..MaxDelay
  /\ piWhen = 0
  /\ riWhen = 0
  /\ pongRtt = 0
  /\ resp = [Err |-> NoErr, RTT |-> NaN]

\* part_001:195-196: pi.When = time.Now() and the write to the socket
StampSend ==
  /\ rpc = "send"
  /\ piWhen' = clock
  /\ rpc' = "flight"
  /\ UNCHANGED <<clock, delay, riWhen, pongRtt, resp>>
  /\ UNCHANGED notR

\* part_001:45-51: the reply is read after the delay, ri.when = time.Now()
StampRead ==
  /\ rpc = "flight"
  /\ clock' = clock + delay
  /\ riWhen' = clock'
  /\ rpc' = "read"
  /\ UNCHANGED <<delay, piWhen, pongRtt, resp>>
  /\ UNCHANGED notR

\* part_001:117-118: the goroutine of the Ping gets the capture
WaiterRtt ==
  /\ rpc = "read"
  /\ pongRtt' = Rtt(piWhen, riWhen)
  /\ rpc' = "pong"
  /\ UNCHANGED <<clock, delay, piWhen, riWhen, resp>>
  /\ UNCHANGED notR

\* goping.go:151-155: the attempt of Start takes the reply from future, with
\* its round-trip time as the transport computed it
FutureReply ==
  /\ rpc = "pong"
  /\ resp' = [Err |-> Classify("EchoReply"), RTT |-> pongRtt]
  /\ rpc' = "resp"
  /\ UNCHANGED <<clock, delay, piWhen, riWhen, pongRtt>>
  /\ UNCHANGED notR

RNext ==
  \/ StampSend
  \/ StampRead
  \/ WaiterRtt
  \/ FutureReply

RStart == GInit /\ TIdle /\ NInit /\ RInit

RSpec == RStart /\ [][RNext]_vars

\* C15: the Response for a reply that came after delay has no error and a
\* round-trip time equal to delay, which is not negative.
C15_RttIsDelay ==
  rpc = "resp" => (resp.Err = NoErr /\ resp.RTT = delay /\ resp.RTT >= 0)

====
